---------------------------- MODULE Spec2Model ----------------------------
(***************************************************************************)
(* A model of the script block of src/App.vue (bmkg_monitoring): the refs  *)
(* loading / error / points / lokasi / analysisDate, the async function    *)
(* load(), and the computed properties last24h and avg24h.                 *)
(*                                                                         *)
(* JavaScript values are tagged records; strings are sequences of          *)
(* one-character strings so that replace / endsWith / Number() / String()  *)
(* and Date parsing are computed, not assumed.  Instants are milliseconds  *)
(* relative to BaseDay 00:00:00 UTC (TLC integers are 32 bit).             *)
(***************************************************************************)
EXTENDS Integers, Sequences, FiniteSets, TLC

VARIABLES
    loading,       \* ref loading                       (line 24)
    error,         \* ref error: Null or a message      (line 25)
    points,        \* ref points: sequence of DataPoint (line 26)
    lokasi,        \* ref lokasi: Null or a Lokasi      (line 27)
    analysisDate,  \* ref analysisDate: Null or string  (line 28)
    pending,       \* load() calls suspended at `await fetch` (line 34)
    flat,          \* the local `flat` of the last load() that got a JSON body
    lastResp,      \* the response the last finished load() received
    outcome,       \* how the last finished load() ended: "none" yet,
                   \* "ok" (ran to the end of try) or "threw"
    now,           \* the host's wall clock (what new Date() returns)
    zone,          \* the host's time zone (Date's local time)
    winDirty,      \* computed last24h: its dirty flag
    winValue,      \* computed last24h: its cached value
    out            \* what the last step returned to its reader, if it was
                   \* a read of last24h.value or avg24h.value; else <<>>

vars == <<loading, error, points, lokasi, analysisDate, pending, flat,
          lastResp, outcome, now, zone, winDirty, winValue, out>>

---------------------------------------------------------------------------
(* JavaScript values *)

Undefined == [ty |-> "undefined"]
Null == [ty |-> "null"]
Str(s) == [ty |-> "string", s |-> s]
Num(n) == [ty |-> "number", nan |-> FALSE, n |-> n]
NaN == [ty |-> "number", nan |-> TRUE, n |-> 0]
Bool(b) == [ty |-> "boolean", b |-> b]
Arr(items) == [ty |-> "array", items |-> items]

\* v.name : undefined unless v is an object that has the property.  (The
\* caller decides what reading a property of null / undefined does.)
Prop(v, name) ==
    IF v.ty = "object" /\ name \in DOMAIN v THEN v[name] ELSE Undefined

\* v[0]
Index0(v) ==
    CASE v.ty = "array" -> IF Len(v.items) >= 1 THEN v.items[1] ELSE Undefined
      [] v.ty = "string" -> IF Len(v.s) >= 1 THEN Str(<<v.s[1]>>) ELSE Undefined
      [] OTHER -> Undefined

\* Reading a property of null or undefined throws a TypeError.
Nullish(v) == v.ty \in {"undefined", "null"}

\* ToBoolean
Truthy(v) ==
    CASE v.ty \in {"undefined", "null"} -> FALSE
      [] v.ty = "string" -> v.s # <<>>
      [] v.ty = "number" -> ~v.nan /\ v.n # 0
      [] v.ty = "boolean" -> v.b
      [] OTHER -> TRUE

---------------------------------------------------------------------------
(* Strings *)

Digits == {"0", "1", "2", "3", "4", "5", "6", "7", "8", "9"}

DigitVal(c) ==
    CASE c = "0" -> 0 [] c = "1" -> 1 [] c = "2" -> 2 [] c = "3" -> 3
      [] c = "4" -> 4 [] c = "5" -> 5 [] c = "6" -> 6 [] c = "7" -> 7
      [] c = "8" -> 8 [] c = "9" -> 9

DigitChar(d) ==
    CASE d = 0 -> "0" [] d = 1 -> "1" [] d = 2 -> "2" [] d = 3 -> "3"
      [] d = 4 -> "4" [] d = 5 -> "5" [] d = 6 -> "6" [] d = 7 -> "7"
      [] d = 8 -> "8" [] d = 9 -> "9"

AllDigits(s) == \A i \in 1..Len(s) : s[i] \in Digits

RECURSIVE DecimalValue(_)
DecimalValue(s) ==
    IF s = <<>> THEN 0
    ELSE 10 * DecimalValue(SubSeq(s, 1, Len(s) - 1)) + DigitVal(s[Len(s)])

RECURSIVE DecimalDigits(_)
DecimalDigits(n) ==
    IF n < 10 THEN <<DigitChar(n)>>
    ELSE Append(DecimalDigits(n \div 10), DigitChar(n % 10))

\* String.prototype.trim, for the space character
RECURSIVE Trim(_)
Trim(s) ==
    IF s = <<>> THEN s
    ELSE IF Head(s) = " " THEN Trim(Tail(s))
    ELSE IF s[Len(s)] = " " THEN Trim(SubSeq(s, 1, Len(s) - 1))
    ELSE s

\* s.endsWith(suffix)
EndsWith(s, suffix) ==
    /\ Len(s) >= Len(suffix)
    /\ SubSeq(s, Len(s) - Len(suffix) + 1, Len(s)) = suffix

\* s.replace(" ", "T"): a string pattern replaces the first occurrence only
RECURSIVE ReplaceFirstSpace(_)
ReplaceFirstSpace(s) ==
    IF s = <<>> THEN s
    ELSE IF Head(s) = " " THEN <<"T">> \o Tail(s)
    ELSE <<Head(s)>> \o ReplaceFirstSpace(Tail(s))

---------------------------------------------------------------------------
(* Field coercion: Number(x) and String(x ?? "") *)

\* StringToNumber on the strings of the model's alphabet: white space is
\* trimmed, the empty string is 0, an optionally signed run of digits is
\* its value, anything else is NaN.
StringToNumber(s) ==
    LET t == Trim(s) IN
    IF t = <<>> THEN Num(0)
    ELSE IF AllDigits(t) THEN Num(DecimalValue(t))
    ELSE IF Head(t) \in {"+", "-"} /\ Len(t) > 1 /\ AllDigits(Tail(t))
         THEN Num(IF Head(t) = "-" THEN 0 - DecimalValue(Tail(t))
                  ELSE DecimalValue(Tail(t)))
    ELSE NaN

\* Number(v) for the primitive values
ToNumber(v) ==
    CASE v.ty = "undefined" -> NaN
      [] v.ty = "null" -> Num(0)
      [] v.ty = "boolean" -> Num(IF v.b THEN 1 ELSE 0)
      [] v.ty = "number" -> v
      [] v.ty = "string" -> StringToNumber(v.s)

\* String(v) for the primitive values
JsString(v) ==
    CASE v.ty = "undefined" -> <<"u","n","d","e","f","i","n","e","d">>
      [] v.ty = "null" -> <<"n","u","l","l">>
      [] v.ty = "boolean" -> IF v.b THEN <<"t","r","u","e">>
                             ELSE <<"f","a","l","s","e">>
      [] v.ty = "number" ->
            IF v.nan THEN <<"N","a","N">>
            ELSE IF v.n < 0 THEN <<"-">> \o DecimalDigits(0 - v.n)
            ELSE DecimalDigits(v.n)
      [] v.ty = "string" -> v.s

\* x ?? ""
OrEmpty(v) == IF Nullish(v) THEN Str(<<>>) ELSE v

---------------------------------------------------------------------------
(* Date: parsing a date-time string, and the host's local time *)

MsPerSecond == 1000
MsPerMinute == 60 * MsPerSecond
MsPerHour == 60 * MsPerMinute
MsPerDay == 24 * MsPerHour

\* Days from 1970-01-01 to the civil date y-m-d (MakeDay)
DaysFromCivil(y, m, d) ==
    LET yy == IF m <= 2 THEN y - 1 ELSE y
        era == yy \div 400
        yoe == yy - era * 400
        mp == IF m > 2 THEN m - 3 ELSE m + 9
        doy == (153 * mp + 2) \div 5 + d - 1
        doe == yoe * 365 + yoe \div 4 - yoe \div 100 + doy
    IN era * 146097 + doe - 719468

\* Instants are counted from this day's 00:00:00 UTC.
BaseDay == DaysFromCivil(2024, 3, 1)

IsLeap(y) == (y % 4 = 0 /\ y % 100 # 0) \/ y % 400 = 0

DaysInMonth(y, m) ==
    IF m = 2 THEN (IF IsLeap(y) THEN 28 + 1 ELSE 28)
    ELSE IF m \in {4, 6, 9, 11} THEN 30 ELSE 31

Field(s, from, to) == DecimalValue(SubSeq(s, from, to))

\* Date.parse of the date-time forms YYYY-MM-DDTHH:mm+HH:mm and
\* YYYY-MM-DDTHH:mm:ss+HH:mm; any other string is an Invalid Date (NaN).
ParseDate(s) ==
    LET n == Len(s)
        secs == n = 25
        shape ==
            /\ n \in {22, 25}
            /\ AllDigits(SubSeq(s, 1, 4)) /\ s[5] = "-"
            /\ AllDigits(SubSeq(s, 6, 7)) /\ s[8] = "-"
            /\ AllDigits(SubSeq(s, 9, 10)) /\ s[11] = "T"
            /\ AllDigits(SubSeq(s, 12, 13)) /\ s[14] = ":"
            /\ AllDigits(SubSeq(s, 15, 16))
            /\ secs => (s[17] = ":" /\ AllDigits(SubSeq(s, 18, 19)))
            /\ s[n - 5] \in {"+", "-"}
            /\ AllDigits(SubSeq(s, n - 4, n - 3)) /\ s[n - 2] = ":"
            /\ AllDigits(SubSeq(s, n - 1, n))
    IN  IF ~shape THEN NaN
        ELSE
          LET y == Field(s, 1, 4)
              mo == Field(s, 6, 7)
              d == Field(s, 9, 10)
              h == Field(s, 12, 13)
              mi == Field(s, 15, 16)
              sec == IF secs THEN Field(s, 18, 19) ELSE 0
              oh == Field(s, n - 4, n - 3)
              om == Field(s, n - 1, n)
              off == oh * MsPerHour + om * MsPerMinute
              legal ==
                  /\ mo \in 1..12 /\ d >= 1 /\ d <= DaysInMonth(y, mo)
                  /\ (h <= 23 \/ (h = 24 /\ mi = 0 /\ sec = 0))
                  /\ mi <= 59 /\ sec <= 59 /\ oh <= 23 /\ om <= 59
              utc == (DaysFromCivil(y, mo, d) - BaseDay) * MsPerDay
                       + h * MsPerHour + mi * MsPerMinute + sec * MsPerSecond
          IN  IF ~legal THEN NaN
              ELSE Num(IF s[n - 5] = "+" THEN utc - off ELSE utc + off)

\* new Date(p.timestamp).getTime()
GetTime(p) == ParseDate(p.timestamp)

\* A host time zone: offset `before` until the instant `at`, `after` from it.
LocalOffset(z, t) == IF t < z.at THEN z.before ELSE z.after

\* LocalTime(t)
LocalTime(z, t) == t + LocalOffset(z, t)

\* UTC(t): a local time that is skipped or repeated at the transition is
\* read with the offset before the transition.
UTC(z, tl) ==
    IF tl - z.before >= z.at /\ tl - z.after >= z.at THEN tl - z.after
    ELSE tl - z.before

Day(t) == t \div MsPerDay
HourFromTime(t) == (t \div MsPerHour) % 24
TimeWithinHour(t) == t % MsPerHour

\* d.getHours()
GetHours(z, t) == HourFromTime(LocalTime(z, t))

\* d.setHours(hour): the local date and the minutes, seconds and
\* milliseconds are kept, MakeDate(Day, MakeTime(hour, ...)), then UTC()
SetHours(z, t, hour) ==
    LET tl == LocalTime(z, t)
    IN UTC(z, Day(tl) * MsPerDay + hour * MsPerHour + TimeWithinHour(tl))

---------------------------------------------------------------------------
(* load(): the pipeline from the JSON document to the refs *)

TypeError == Str(<<"T","y","p","e","E","r","r","o","r">>)
FetchFailed == Str(<<"F","a","i","l","e","d"," ","t","o"," ","f","e","t","c","h">>)
HttpError(status) == Str(<<"H","T","T","P"," ">> \o DecimalDigits(status))

\* res.ok
ResOk(resp) == resp.status \in 200..299

\* lines 39-46: lokasi is assigned only when json.lokasi is truthy
LokasiOf(json, old) ==
    LET l == Prop(json, "lokasi") IN
    IF Truthy(l)
    THEN [ty |-> "object",
          provinsi |-> Prop(l, "provinsi"), kotkab |-> Prop(l, "kotkab"),
          kecamatan |-> Prop(l, "kecamatan"), desa |-> Prop(l, "desa")]
    ELSE old

\* lines 49-52
CuacaNested(json) ==
    LET data == Prop(json, "data")
        first == Index0(data)
    IN IF Truthy(data) /\ Truthy(first) /\ Prop(first, "cuaca").ty = "array"
       THEN Prop(first, "cuaca").items
       ELSE <<>>

\* line 54: [].concat(...nested) spreads an argument that is an array and
\* appends any other argument as a single element
RECURSIVE Flatten(_)
Flatten(nested) ==
    IF nested = <<>> THEN <<>>
    ELSE (IF Head(nested).ty = "array" THEN Head(nested).items
          ELSE <<Head(nested)>>) \o Flatten(Tail(nested))

\* line 57: flat.find((x) => x.analysis_date): 0 when no element matches,
\* the index of the first match, or -1 when the callback throws on a null
\* element met before any match
RECURSIVE FindAnalysis(_, _)
FindAnalysis(items, i) ==
    IF i > Len(items) THEN 0
    ELSE IF Nullish(items[i]) THEN 0 - 1
    ELSE IF Truthy(Prop(items[i], "analysis_date")) THEN i
    ELSE FindAnalysis(items, i + 1)

\* the zone marker appended without looking at the string's end
WithZoneAlways(raw) == raw \o <<"Z">>

\* line 60
WithZone(raw) == IF EndsWith(raw, <<"Z">>) THEN raw ELSE raw \o <<"Z">>

\* lines 65-66: whether rawLocal.replace throws
LocalThrows(item) ==
    Nullish(item) \/ Prop(item, "local_datetime").ty # "string"

\* lines 64-76
DataPoint(item) ==
    [timestamp |-> ReplaceFirstSpace(Prop(item, "local_datetime").s)
                     \o <<"+","0","7",":","0","0">>,
     temperature |-> ToNumber(Prop(item, "t")),
     humidity |-> ToNumber(Prop(item, "hu")),
     windSpeed |-> ToNumber(Prop(item, "ws")),
     condition |-> JsString(OrEmpty(Prop(item, "weather_desc"))),
     iconUrl |-> Prop(item, "image")]

MapPoints(items) == [i \in 1..Len(items) |-> DataPoint(items[i])]

\* lines 80-81: the comparator, on elements paired with the instant that
\* new Date(x.timestamp).getTime() yields for them; a NaN result counts
\* as +0
Compare(a, b) ==
    IF a.time.nan \/ b.time.nan THEN 0 ELSE a.time.n - b.time.n

\* a sort that puts an element before the elements that compare equal
RECURSIVE InsertBeforeTies(_, _)
InsertBeforeTies(x, sorted) ==
    IF sorted = <<>> THEN <<x>>
    ELSE IF Compare(sorted[Len(sorted)], x) < 0 THEN Append(sorted, x)
    ELSE Append(InsertBeforeTies(x, SubSeq(sorted, 1, Len(sorted) - 1)),
                sorted[Len(sorted)])

\* Array.prototype.sort: a stable insertion of each element in turn
RECURSIVE InsertSorted(_, _)
InsertSorted(x, sorted) ==
    IF sorted = <<>> THEN <<x>>
    ELSE IF Compare(sorted[Len(sorted)], x) <= 0 THEN Append(sorted, x)
    ELSE Append(InsertSorted(x, SubSeq(sorted, 1, Len(sorted) - 1)),
                sorted[Len(sorted)])

RECURSIVE StableSort(_)
StableSort(seq) ==
    IF seq = <<>> THEN <<>>
    ELSE InsertSorted(seq[Len(seq)], StableSort(SubSeq(seq, 1, Len(seq) - 1)))

\* lines 79-82: points.value.sort(...).  When some timestamp is not a
\* date the comparator is not a consistent comparison function and
\* ECMAScript leaves the order to the engine; the engines sort arrays as
\* short as the model's by insertion, which is what this computes with
\* the comparator as it is.
SortPoints(seq) ==
    LET timed == [i \in 1..Len(seq) |-> [p |-> seq[i], time |-> GetTime(seq[i])]]
        sorted == StableSort(timed)
    IN [i \in 1..Len(sorted) |-> sorted[i].p]

---------------------------------------------------------------------------
(* The computed properties last24h and avg24h *)

\* lines 110-115: the getter of last24h, run at wall-clock instant t on a
\* host in time zone z
Last24h(pts, z, t) ==
    IF Len(pts) = 0 THEN <<>>
    ELSE LET cutoff == SetHours(z, t, GetHours(z, t) - 24)
             Keep(p) == ~GetTime(p).nan /\ GetTime(p).n >= cutoff
         IN SelectSeq(pts, Keep)

RECURSIVE GCD(_, _)
GCD(a, b) == IF b = 0 THEN a ELSE GCD(b, a % b)

Abs(x) == IF x < 0 THEN 0 - x ELSE x

\* a / b for b > 0, as the fraction n / d in lowest terms
Quotient(a, b) ==
    LET g == GCD(Abs(a), b)
    IN IF g = 0 THEN [ty |-> "number", nan |-> FALSE, n |-> 0, d |-> 1]
       ELSE [ty |-> "number", nan |-> FALSE, n |-> a \div g, d |-> b \div g]

QuotientNaN == [ty |-> "number", nan |-> TRUE, n |-> 0, d |-> 1]

\* a + b on numbers
Add(a, b) == IF a.nan \/ b.nan THEN NaN ELSE Num(a.n + b.n)

\* arr.reduce((a, b) => a + b, 0)
RECURSIVE ReduceSum(_)
ReduceSum(arr) ==
    IF arr = <<>> THEN Num(0)
    ELSE Add(ReduceSum(SubSeq(arr, 1, Len(arr) - 1)), arr[Len(arr)])

\* an average that is 0 on an empty array
avgZeroWhenEmpty(arr) ==
    LET sum == ReduceSum(arr)
    IN IF sum.nan THEN QuotientNaN
       ELSE Quotient(sum.n, IF Len(arr) = 0 THEN 1 ELSE Len(arr))

\* lines 118-121
avg(arr) ==
    IF Len(arr) = 0 THEN QuotientNaN
    ELSE LET sum == ReduceSum(arr)
         IN IF sum.nan THEN QuotientNaN ELSE Quotient(sum.n, Len(arr))

\* lines 123-130: the getter of avg24h on the value of last24h
Avg24h(arr) ==
    [temperature |-> avg([i \in 1..Len(arr) |-> arr[i].temperature]),
     humidity |-> avg([i \in 1..Len(arr) |-> arr[i].humidity]),
     windSpeed |-> avg([i \in 1..Len(arr) |-> arr[i].windSpeed])]

\* computed(): the getter runs only when a reactive dependency (points)
\* has changed since the last evaluation; otherwise the cached value is
\* returned.  new Date() is not a reactive dependency.
ComputedLast24h ==
    IF winDirty THEN Last24h(points, zone, now) ELSE winValue

---------------------------------------------------------------------------
(* Bounds, the host's clock and time zones *)

MaxPending == 1     \* load() calls in flight at once
MaxTick == 2        \* clock readings after the first
MaxSortLen == 3     \* records of a response of SortResponses
MaxScanLen == 2     \* records of a response of ScanResponses
MaxWinLen == 2      \* records of a response of WindowResponses

\* Clock readings: 2024-03-10T16:00:00.000Z, one millisecond later, then
\* the same pair every three hours (the forecast's slot width).
ClockAt(i) == 9 * MsPerDay + 16 * MsPerHour + (i \div 2) * 3 * MsPerHour + (i % 2)

ClockTimes == {ClockAt(i) : i \in 0..MaxTick}

\* Asia/Jakarta: UTC+7, no transitions
Jakarta == [before |-> 7 * MsPerHour, at |-> 0, after |-> 7 * MsPerHour]

\* America/New_York: UTC-5 until 2024-03-10T07:00:00Z, UTC-4 from then
NewYork == [before |-> 0 - 5 * MsPerHour,
            at |-> 9 * MsPerDay + 7 * MsPerHour,
            after |-> 0 - 4 * MsPerHour]

---------------------------------------------------------------------------
(* The operations *)

NoOut == [op |-> "none"]
NoResp == [fetched |-> FALSE, status |-> 0, json |-> Undefined]

InitIn(z) ==
    /\ loading = TRUE
    /\ error = Null
    /\ points = <<>>
    /\ lokasi = Null
    /\ analysisDate = Null
    /\ pending = 0
    /\ flat = <<>>
    /\ lastResp = NoResp
    /\ outcome = "none"
    /\ now = ClockAt(0)
    /\ zone = z
    /\ winDirty = TRUE
    /\ winValue = <<>>
    /\ out = NoOut

\* lines 30-34: load() up to `await fetch(API_URL)`
LoadStart ==
    /\ pending < MaxPending
    /\ pending' = pending + 1
    /\ loading' = TRUE
    /\ error' = Null
    /\ out' = NoOut
    /\ UNCHANGED <<points, lokasi, analysisDate, flat, lastResp, outcome, now,
                   zone, winDirty, winValue>>

\* lines 34-88: load() from the settled fetch to the end.  A throw leaves
\* the assignments made before it in place; catch sets error, finally
\* clears loading.
Fail(msg, newLokasi, newAnalysis, newFlat) ==
    /\ outcome' = "threw"
    /\ error' = msg
    /\ lokasi' = newLokasi
    /\ analysisDate' = newAnalysis
    /\ flat' = newFlat
    /\ UNCHANGED <<points, winDirty, winValue>>

LoadFinish(resp) ==
    /\ pending > 0
    /\ pending' = pending - 1
    /\ loading' = FALSE
    /\ lastResp' = resp
    /\ out' = NoOut
    /\ UNCHANGED <<now, zone>>
    /\ IF ~resp.fetched THEN Fail(FetchFailed, lokasi, analysisDate, <<>>)
       ELSE IF ~ResOk(resp)
         THEN Fail(HttpError(resp.status), lokasi, analysisDate, <<>>)
       ELSE IF Nullish(resp.json)
         THEN Fail(TypeError, lokasi, analysisDate, <<>>)
       ELSE
         LET json == resp.json
             newLokasi == LokasiOf(json, lokasi)
             items == Flatten(CuacaNested(json))
             found == FindAnalysis(items, 1)
             raw == Prop(items[found], "analysis_date")
             newAnalysis == IF found = 0 THEN analysisDate
                            ELSE Str(WithZone(raw.s))
         IN IF found < 0 THEN Fail(TypeError, newLokasi, analysisDate, items)
            ELSE IF found > 0 /\ raw.ty # "string"
              THEN Fail(TypeError, newLokasi, analysisDate, items)
            ELSE IF \E i \in 1..Len(items) : LocalThrows(items[i])
              THEN Fail(TypeError, newLokasi, newAnalysis, items)
            ELSE
              /\ outcome' = "ok"
              /\ lokasi' = newLokasi
              /\ analysisDate' = newAnalysis
              /\ flat' = items
              /\ points' = SortPoints(MapPoints(items))
              /\ winDirty' = TRUE
              /\ UNCHANGED <<error, winValue>>

\* the host's clock advances
Tick ==
    /\ \E t \in ClockTimes : t > now /\ now' = t
    /\ out' = NoOut
    /\ UNCHANGED <<loading, error, points, lokasi, analysisDate, pending,
                   flat, lastResp, outcome, zone, winDirty, winValue>>

\* a reader (the template) evaluates last24h.value; `ran` tells whether
\* the getter ran for this read
ReadLast24h ==
    LET w == ComputedLast24h IN
    /\ winValue' = w
    /\ winDirty' = FALSE
    /\ out' = [op |-> "last24h", ran |-> winDirty, window |-> w]
    /\ UNCHANGED <<loading, error, points, lokasi, analysisDate, pending,
                   flat, lastResp, outcome, now, zone>>

\* a reader evaluates avg24h.value, whose getter reads last24h.value
ReadAvg24h ==
    LET w == ComputedLast24h IN
    /\ winValue' = w
    /\ winDirty' = FALSE
    /\ out' = [op |-> "avg24h", ran |-> winDirty, window |-> w,
               value |-> Avg24h(w)]
    /\ UNCHANGED <<loading, error, points, lokasi, analysisDate, pending,
                   flat, lastResp, outcome, now, zone>>

---------------------------------------------------------------------------
(* Responses the fetch can settle with *)

Ok(json) == [fetched |-> TRUE, status |-> 200, json |-> json]
NetworkFailure == [fetched |-> FALSE, status |-> 0, json |-> Undefined]
ServerError == [fetched |-> TRUE, status |-> 500, json |-> Undefined]

\* a raw weather record; a field given as Undefined is absent
Rec(local, analysis, t, hu, ws, desc, image) ==
    [ty |-> "object", local_datetime |-> local, analysis_date |-> analysis,
     t |-> t, hu |-> hu, ws |-> ws, weather_desc |-> desc, image |-> image]

\* { lokasi, data: [ { cuaca } ] }
Doc(l, cuaca) ==
    [ty |-> "object", lokasi |-> l,
     data |-> Arr(<<[ty |-> "object", cuaca |-> cuaca]>>)]

SeqsUpTo(S, n) == UNION {[1..k -> S] : k \in 0..n}

Mar09 == <<"2","0","2","4","-","0","3","-","0","9">>
Mar10 == <<"2","0","2","4","-","0","3","-","1","0">>
\* local (UTC+7) times of forecast slots
SlotA == Str(Mar09 \o <<" ","2","3",":","0","0",":","0","0">>)  \* 09T16:00Z
SlotAShort == Str(Mar09 \o <<" ","2","3",":","0","0">>)         \* 09T16:00Z
SlotB == Str(Mar10 \o <<" ","0","2",":","0","0",":","0","0">>)  \* 09T19:00Z
SlotC == Str(Mar10 \o <<" ","0","5",":","0","0",":","0","0">>)  \* 09T22:00Z
NotATime == Str(<<"n","/","a">>)

Cerah == Str(<<"C","e","r","a","h">>)
Icon == Str(<<"a",".","s","v","g">>)
N28 == Str(<<"2","8">>)

Banten == [ty |-> "object", provinsi |-> Str(<<"B","a","n","t","e","n">>),
           kotkab |-> Str(<<"T","a","n","g","e","r","a","n","g">>),
           kecamatan |-> Str(<<"C","i","k","u","p","a">>),
           desa |-> Str(<<"T","a","l","a","g","a">>)]

\* a well-formed record at the given slot
Good(local) == Rec(local, Undefined, N28, Num(80), Num(5), Cerah, Icon)

\* -- responses for the sort: records that differ in their local time.
\* SlotA and SlotAShort are the same instant written differently.
SortPool == {Good(SlotA), Good(SlotAShort), Good(SlotB)}

\* a record whose local time is not a date, alone, beside a well-formed
\* one, or between two well-formed ones
MalformedAmong ==
    {<<Good(NotATime)>>}
    \cup {<<x, Good(NotATime)>> : x \in SortPool}
    \cup {<<Good(NotATime), x>> : x \in SortPool}
    \cup {<<x, Good(NotATime), y>> : x \in SortPool, y \in SortPool}

SortResponses ==
    {Ok(Doc(Undefined, Arr(<<Arr(items)>>))) :
        items \in SeqsUpTo(SortPool, MaxSortLen) \cup MalformedAmong}

\* -- responses for the analysis scan: records that differ in analysis_date
Analysis1 == Str(Mar09 \o <<"T","1","2",":","0","0",":","0","0">>)
Analysis2Z == Str(Mar10 \o <<"T","0","0",":","0","0",":","0","0","Z">>)

ScanPool ==
    {Rec(SlotA, a, N28, Num(80), Num(5), Cerah, Icon) :
        a \in {Undefined, Null, Str(<<>>), Analysis1, Analysis2Z}}

ScanResponses ==
    {Ok(Doc(Undefined, Arr(<<Arr(items)>>))) :
        items \in SeqsUpTo(ScanPool, MaxScanLen)}

\* -- responses for the window: records that differ in slot and readings,
\* listed in slot order as the forecast lists them
WindowRecord(k) ==
    CASE k = 1 -> Rec(SlotA, Undefined, Num(10), Num(80), Num(5), Cerah, Icon)
      [] k = 2 -> Rec(SlotB, Undefined, Str(<<"2","1">>), Num(70), Num(7),
                      Cerah, Icon)
      [] k = 3 -> Rec(SlotC, Undefined, Undefined, Num(70), Num(9), Cerah, Icon)

WindowResponses ==
    {Ok(Doc(Undefined, Arr(<<Arr([i \in 1..Len(ks) |-> WindowRecord(ks[i])])>>))) :
        ks \in {s \in SeqsUpTo(1..3, MaxWinLen) :
                   \A i \in 1..(Len(s) - 1) : s[i] <= s[i + 1]}}

\* -- responses for the document shape and the record fields
ShapeDocs ==
    {Null, Num(5), [ty |-> "object"],
     [ty |-> "object", lokasi |-> Banten],
     [ty |-> "object", data |-> Num(5)],
     [ty |-> "object", data |-> Arr(<<>>)],
     [ty |-> "object", data |-> Arr(<<Null>>)],
     [ty |-> "object", lokasi |-> Banten, data |-> Arr(<<[ty |-> "object"]>>)],
     Doc(Undefined, Num(5)),
     Doc(Banten, Arr(<<>>)),
     Doc(Undefined, Arr(<<Arr(<<>>)>>)),
     Doc(Banten, Arr(<<Arr(<<Good(SlotA), Good(SlotB)>>), Arr(<<Good(SlotC)>>)>>)),
     Doc(Undefined, Arr(<<Good(SlotA), Good(SlotB)>>)),
     Doc(Undefined, Arr(<<Arr(<<Good(SlotB)>>), Good(SlotA)>>)),
     Doc(Undefined, Arr(<<Arr(<<Rec(SlotA, Analysis1, N28, Num(80), Num(5),
                                   Cerah, Icon)>>)>>))}

NumericInputs ==
    {Undefined, Null, Str(<<>>), N28, Str(<<" ","2","8"," ">>),
     Str(<<"-","3">>), Str(<<"a","b","c">>), Num(30), Bool(TRUE)}

FieldRecords ==
    {Rec(SlotA, Undefined, x, Num(80), Num(5), Cerah, Icon) : x \in NumericInputs}
    \cup {Rec(SlotA, Undefined, N28, x, Num(5), Cerah, Icon) : x \in NumericInputs}
    \cup {Rec(SlotA, Undefined, N28, Num(80), x, Cerah, Icon) : x \in NumericInputs}
    \cup {Rec(x, Undefined, N28, Num(80), Num(5), Cerah, Icon) :
            x \in {Undefined, Null, Num(5), NotATime}}
    \cup {Rec(SlotA, x, N28, Num(80), Num(5), Cerah, Icon) :
            x \in {Null, Analysis1, Num(5)}}
    \cup {Rec(SlotA, Undefined, N28, Num(80), Num(5), x, Icon) :
            x \in {Undefined, Null, Num(5)}}
    \cup {Rec(SlotA, Undefined, N28, Num(80), Num(5), Cerah, x) :
            x \in {Undefined, Null}}
    \cup {Null}

LoadResponses ==
    {NetworkFailure, ServerError}
    \cup {Ok(j) : j \in ShapeDocs}
    \cup {Ok(Doc(Undefined, Arr(<<Arr(<<Good(SlotB), r>>)>>))) : r \in FieldRecords}

---------------------------------------------------------------------------
(* Specifications *)

NextLoad == LoadStart \/ \E resp \in LoadResponses : LoadFinish(resp)
SpecLoad == InitIn(Jakarta) /\ [][NextLoad]_vars

NextSort == LoadStart \/ \E resp \in SortResponses : LoadFinish(resp)
SpecSort == InitIn(Jakarta) /\ [][NextSort]_vars

NextScan == LoadStart \/ \E resp \in ScanResponses : LoadFinish(resp)
SpecScan == InitIn(Jakarta) /\ [][NextScan]_vars

NextWindow ==
    \/ LoadStart
    \/ \E resp \in WindowResponses : LoadFinish(resp)
    \/ Tick
    \/ ReadLast24h
    \/ ReadAvg24h
SpecWindow == InitIn(Jakarta) /\ [][NextWindow]_vars

\* the same operations on hosts in either time zone
NextZones ==
    \/ LoadStart
    \/ \E resp \in WindowResponses : LoadFinish(resp)
    \/ Tick
    \/ ReadLast24h
    \/ ReadAvg24h
SpecZones ==
    (\E z \in {Jakarta, NewYork} : InitIn(z)) /\ [][NextZones]_vars

---------------------------------------------------------------------------
(* Properties *)

Before(a, b) == ~a.nan /\ ~b.nan /\ a.n < b.n
SameInstant(a, b) == ~a.nan /\ ~b.nan /\ a.n = b.n

\* ps is built rearranged so that no observation comes after one of a
\* later instant, observations of one instant keeping their order in built
SortedStably(ps, built) ==
    /\ Len(ps) = Len(built)
    /\ \E q \in Permutations(1..Len(built)) :
          /\ \A i \in 1..Len(ps) : ps[i] = built[q[i]]
          /\ \A i, j \in 1..Len(ps) :
                (i < j /\ SameInstant(GetTime(ps[i]), GetTime(ps[j])))
                   => q[i] < q[j]
    /\ \A i, j \in 1..Len(ps) : i < j => ~Before(GetTime(ps[j]), GetTime(ps[i]))

AllInstantsValid(ps) == \A i \in 1..Len(ps) : ~GetTime(ps[i]).nan

\* C1 as stated: after every load() that completes without error, points
\* is a permutation of the observations built from the flattened records,
\* non-decreasing by instant, with equal instants in flatten order.
C1_SortedAfterEveryLoad ==
    outcome = "ok" => SortedStably(points, MapPoints(flat))

\* C1 amended: the same, for the loads in which every record's local time
\* parses to a valid instant.
C1_SortedWhenInstantsValid ==
    (outcome = "ok" /\ AllInstantsValid(MapPoints(flat)))
       => SortedStably(points, MapPoints(flat))

\* a load of three valid records that the sort had to reorder and that
\* holds two different observations of one instant
C1_Witness ==
    /\ outcome = "ok"
    /\ Len(points) = 3
    /\ AllInstantsValid(points)
    /\ points # MapPoints(flat)
    /\ \E i, j \in 1..3 :
          /\ i < j
          /\ points[i] # points[j]
          /\ SameInstant(GetTime(points[i]), GetTime(points[j]))

\* The analysis-time rule, stated on its own
AnalysisRule(str) ==
    IF Len(str) > 0 /\ str[Len(str)] = "Z" THEN str ELSE Append(str, "Z")

NonAbsent(v) == v.ty \notin {"undefined", "null"}
NonEmptyString(v) == v.ty = "string" /\ v.s # <<>>

AnalysisField(i) == Prop(flat[i], "analysis_date")

FirstNonAbsent(i) ==
    NonAbsent(AnalysisField(i)) /\ \A j \in 1..(i - 1) : ~NonAbsent(AnalysisField(j))

FirstNonEmpty(i) ==
    /\ NonEmptyString(AnalysisField(i))
    /\ \A j \in 1..(i - 1) : ~NonEmptyString(AnalysisField(j))

\* C8 as stated: after a load without error, analysisDate is the rule
\* applied to the analysis field of the first record that carries a
\* non-absent analysis field.
C8_FirstNonAbsent ==
    outcome = "ok" =>
        \A i \in 1..Len(flat) :
            FirstNonAbsent(i) =>
                analysisDate = Str(AnalysisRule(JsString(Prop(flat[i], "analysis_date"))))

\* C8 amended: ... of the first record that carries a non-empty analysis
\* string; absent, null and empty analysis fields are skipped.
C8_FirstNonEmpty ==
    outcome = "ok" =>
        \A i \in 1..Len(flat) :
            FirstNonEmpty(i) =>
                analysisDate = Str(AnalysisRule(Prop(flat[i], "analysis_date").s))

\* a load whose first analysis field lacks the Z and whose second record
\* carries a different analysis field
C8_Witness ==
    /\ outcome = "ok"
    /\ Len(flat) = 2
    /\ Prop(flat[1], "analysis_date") = Analysis1
    /\ Prop(flat[2], "analysis_date") = Analysis2Z
    /\ analysisDate = Str(Analysis1.s \o <<"Z">>)

\* the exact mean of a sequence of numbers, stated on its own: q is NaN
\* when there is nothing to average or a value is NaN, else q.n / q.d is
\* the sum over the count
RECURSIVE SumFrom(_, _)
SumFrom(vals, i) == IF i > Len(vals) THEN 0 ELSE vals[i].n + SumFrom(vals, i + 1)

IsMeanOf(q, vals) ==
    IF Len(vals) = 0 \/ \E i \in 1..Len(vals) : vals[i].nan
    THEN q.nan
    ELSE ~q.nan /\ q.d > 0 /\ q.n * Len(vals) = q.d * SumFrom(vals, 1)

\* C10: each of avg24h's temperature, humidity and windSpeed is the mean
\* of that field alone over the window avg24h read, and NaN when that
\* window is empty.
C10_AvgIsFieldMean ==
    out.op = "avg24h" =>
        /\ IsMeanOf(out.value.temperature,
                    [i \in 1..Len(out.window) |-> out.window[i].temperature])
        /\ IsMeanOf(out.value.humidity,
                    [i \in 1..Len(out.window) |-> out.window[i].humidity])
        /\ IsMeanOf(out.value.windSpeed,
                    [i \in 1..Len(out.window) |-> out.window[i].windSpeed])
        /\ Len(out.window) = 0 =>
              (out.value.temperature.nan /\ out.value.humidity.nan
                 /\ out.value.windSpeed.nan)

\* an average over a window of two observations whose temperature mean
\* is 31/2 and whose humidity mean is 75
C10_Witness ==
    /\ out.op = "avg24h"
    /\ Len(out.window) = 2
    /\ out.value.temperature = [ty |-> "number", nan |-> FALSE, n |-> 31, d |-> 2]
    /\ out.value.humidity = [ty |-> "number", nan |-> FALSE, n |-> 75, d |-> 1]

GotJson == lastResp.fetched /\ ResOk(lastResp)

\* C2: whatever a record lacks, load() ends without the error state and
\* points has one observation per flattened record.
C2_EveryRecordKept ==
    (GotJson /\ ~Nullish(lastResp.json))
       => (outcome = "ok" /\ error = Null /\ Len(points) = Len(flat))

\* C3: the window a read of last24h returns holds no observation older
\* than 24 hours before the wall-clock time of that read.
C3_WindowFollowsClock ==
    out.op = "last24h" =>
        \A i \in 1..Len(out.window) :
            ~Before(GetTime(out.window[i]), Num(now - MsPerDay))

AtOrAfter(p, cutoff) == ~GetTime(p).nan /\ GetTime(p).n >= cutoff

\* C4: the window the getter computes at `now` is exactly the observations
\* with instant >= now - 24 hours, in the order of the series.
C4_ExactlyLast24Hours ==
    (out.op = "last24h" /\ out.ran) =>
        out.window = SelectSeq(points, LAMBDA p : AtOrAfter(p, now - MsPerDay))

\* C5: after a load without error, lokasi and analysisDate are what that
\* load's response says, and absent when it says nothing.
C5_NothingSurvivesALoad ==
    outcome = "ok" =>
        /\ lokasi = LokasiOf(lastResp.json, Null)
        /\ analysisDate =
              IF \E i \in 1..Len(flat) : FirstNonEmpty(i)
              THEN LET i == CHOOSE k \in 1..Len(flat) : FirstNonEmpty(k)
                   IN Str(AnalysisRule(Prop(flat[i], "analysis_date").s))
              ELSE Null

RECURSIVE Concatenation(_)
Concatenation(arrays) ==
    IF arrays = <<>> THEN <<>>
    ELSE Head(arrays).items \o Concatenation(Tail(arrays))

\* the weather field of a document: data[0].cuaca
WeatherField(json) == Prop(Index0(Prop(json, "data")), "cuaca")

\* C6: flat is the concatenation of the inner collections, and empty when
\* the weather field is absent or not a collection of collections.
C6_FlattenOrEmpty ==
    (GotJson /\ ~Nullish(lastResp.json)) =>
        flat = LET c == WeatherField(lastResp.json)
               IN IF c.ty = "array"
                     /\ \A i \in 1..Len(c.items) : c.items[i].ty = "array"
                  THEN Concatenation(c.items)
                  ELSE <<>>

\* the number the claim expects for a raw field: the number itself, the
\* value of a numeric string, NaN for anything else
IsNumericString(str) ==
    LET t == Trim(str)
    IN \/ (t # <<>> /\ AllDigits(t))
       \/ (Len(t) > 1 /\ Head(t) \in {"+", "-"} /\ AllDigits(Tail(t)))

ExpectedNumber(v) ==
    IF v.ty = "number" THEN v
    ELSE IF v.ty = "string" /\ IsNumericString(v.s) THEN StringToNumber(v.s)
    ELSE NaN

\* C7: every observation's temperature, humidity and wind speed is the
\* numeric value of its record's field, and NaN (never 0) when the field
\* is absent or not numeric.
C7_NumberOrNaN ==
    outcome = "ok" =>
        \E q \in Permutations(1..Len(flat)) :
            \A i \in 1..Len(flat) :
                /\ points[i].temperature = ExpectedNumber(Prop(flat[q[i]], "t"))
                /\ points[i].humidity = ExpectedNumber(Prop(flat[q[i]], "hu"))
                /\ points[i].windSpeed = ExpectedNumber(Prop(flat[q[i]], "ws"))

\* a document with neither a location nor a first data element
TopLevelMissing(json) ==
    /\ ~Truthy(Prop(json, "lokasi"))
    /\ LET data == Prop(json, "data")
       IN data.ty # "array" \/ Len(data.items) = 0 \/ Nullish(data.items[1])

\* C9: a fetched document whose top-level shape is missing or malformed
\* gives no error, an empty series, no location and no analysis instant.
C9_MalformedDegrades ==
    (GotJson /\ TopLevelMissing(lastResp.json)) =>
        /\ outcome = "ok" /\ error = Null
        /\ points = <<>>
        /\ lokasi = Null
        /\ analysisDate = Null

===========================================================================
